---- MODULE Spec2Model ----
(***************************************************************************)
(* Transformer-Engine adapter layer of megatron.core                       *)
(* (megatron/core/transformer/custom_layers/transformer_engine.py).        *)
(*                                                                         *)
(* The state is the host framework's tensor-model-parallel group, the      *)
(* wrapper instances built so far, and the record of the last call made by *)
(* a caller (its keyword arguments, the adapter frames it entered, the     *)
(* external constructor calls it made and what it returned or raised).     *)
(* Python values are modelled as records tagged with their type; keyword   *)
(* arguments as functions from parameter names to values.                  *)
(***************************************************************************)
EXTENDS Integers, Sequences, FiniteSets, TLC

\* The attribute, field and keyword names of the model. Every record below
\* lists its fields in this order.
Glossary ==
    [args |-> "keyword arguments an external constructor received",
     attention_dropout |-> "TransformerConfig field",
     attention_type |-> "keyword of te.pytorch.DotProductAttention",
     attn_mask_type |-> "parameter of TEDotProductAttention",
     attrs |-> "attributes an adapter set on self",
     bias |-> "parameter of the linear wrappers and of the external layers",
     causal |-> "member of AttnMaskType",
     cls |-> "class called, or class of an instance",
     config |-> "the TransformerConfig passed to a wrapper",
     data |-> "what a tensor holds",
     enum |-> "enumeration a member belongs to",
     eps |-> "parameter of the normalization wrappers",
     ext |-> "external class whose constructor was called",
     frames |-> "adapter constructor frames entered, outermost first",
     fuse_wgrad_accumulation |-> "keyword of the external linear layers",
     get_rng_state_tracker |-> "keyword of the external layers",
     gradient_accumulation_fusion |-> "TransformerConfig field",
     hidden_size |-> "parameter of the normalization wrappers",
     idx |-> "position in objs of the instance a call built or acted on",
     in_features |-> "keyword of the external linear layers",
     init_method |-> "parameter of the linear wrappers",
     input_size |-> "parameter of the linear wrappers",
     items |-> "members of a tuple",
     kv_channels |-> "TransformerConfig field",
     kw |-> "keyword arguments of a call",
     layer_number |-> "parameter of TEDotProductAttention",
     made |-> "the call that built an instance",
     mro |-> "method resolution order of an instance",
     name |-> "name of an enumeration member",
     normalization |-> "parameter of TENorm and TransformerConfig field",
     num_attention_heads |-> "TransformerConfig field",
     of |-> "the input a tensor was computed from",
     op |-> "operation of a call",
     out_features |-> "keyword of the external linear layers",
     outcome |-> "ok, or the exception raised",
     output_size |-> "parameter of the linear wrappers",
     padding |-> "member of AttnMaskType",
     parallel_mode |-> "parameter of TELinear and keyword of the external layers",
     params_dtype |-> "TransformerConfig field",
     ps |-> "tensor-model-parallel group at the time of a call",
     py |-> "Python type of a value",
     raised |-> "whether a host function raised",
     ret |-> "value a call returned",
     return_bias |-> "keyword of the external linear layers",
     sequence_parallel |-> "parameter, keyword and TransformerConfig field",
     skip_bias_add |-> "parameter of the linear wrappers",
     te |-> "state of the external layer an instance derives from",
     teCalls |-> "external constructor calls made, in order",
     teRet |-> "value the external forward returned",
     te_return_bias |-> "attribute of the linear wrappers",
     tensor_model_parallel_size |-> "TransformerConfig field",
     tp_group |-> "keyword and state of the external layers",
     tp_size |-> "keyword of the external layers",
     ub_split_ag |-> "keyword of the external linear layers",
     value |-> "value of an enumeration member or of a host function",
     zero_centered_gamma |-> "keyword of the external normalization layers"]

VARIABLES parallel_state, objs, last

vars == <<parallel_state, objs, last>>

\* Number of wrapper instances kept alive at once.
MaxObjects == 1

(***************************************************************************)
(* Python values                                                           *)
(***************************************************************************)
PyNone == [py |-> "NoneType"]

Tensor(data, of) == [data |-> data, of |-> of, py |-> "Tensor"]

PyTuple(a, b) == [items |-> <<a, b>>, py |-> "tuple"]

EmptyKw == [k \in {} |-> TRUE]

\* f(**a, **b): the keywords of a and of b, a's value where both name one.
Merge(a, b) ==
    [k \in DOMAIN a \cup DOMAIN b |-> IF k \in DOMAIN a THEN a[k] ELSE b[k]]

\* A keyword call's arguments without the named keys.
Omit(kw, keys) == [k \in DOMAIN kw \ keys |-> kw[k]]

\* Python binds a parameter to the keyword given, else to its default.
Arg(kw, name, default) == IF name \in DOMAIN kw THEN kw[name] ELSE default

\* The required parameters a call leaves unbound (TypeError when non-empty).
MissingArgs(required, kw) == required \ DOMAIN kw

\* What a signature's **kwargs collects: the keywords that name no parameter.
VarKw(named, kw) == [k \in DOMAIN kw \ named |-> kw[k]]

\* f(a=1, **kwargs) raises TypeError when kwargs repeats an explicit keyword.
DuplicateKw(explicit, kwargs) == DOMAIN explicit \cap DOMAIN kwargs # {}

\* The evaluation of a constructor call that raised.
Raise(exc, frames) ==
    [attrs |-> EmptyKw, frames |-> frames, outcome |-> exc, teCalls |-> <<>>]

\* The evaluation of a constructor call that reached the external class.
Built(frames, ext, args, attrs) ==
    [attrs |-> attrs, frames |-> frames,
     outcome |-> "ok", teCalls |-> <<[args |-> args, ext |-> ext]>>]

(***************************************************************************)
(* Host framework                                                          *)
(***************************************************************************)
Groups == {"tp_group_0"}

\* megatron.core.parallel_state.get_tensor_model_parallel_group
GetTensorModelParallelGroup(ps, check_initialized) ==
    IF check_initialized /\ ps = "None"
    THEN [raised |-> TRUE, value |-> "None"]
    ELSE [raised |-> FALSE, value |-> ps]

AttnMaskType ==
    [causal |-> [enum |-> "AttnMaskType", name |-> "causal", value |-> 2],
     padding |-> [enum |-> "AttnMaskType", name |-> "padding", value |-> 1]]

ConfigA ==
    [attention_dropout |-> "0.1", gradient_accumulation_fusion |-> FALSE,
     kv_channels |-> 16, normalization |-> "RMSNorm",
     num_attention_heads |-> 8, params_dtype |-> "torch.bfloat16",
     sequence_parallel |-> TRUE, tensor_model_parallel_size |-> 2]

ConfigB ==
    [attention_dropout |-> "0.0", gradient_accumulation_fusion |-> TRUE,
     kv_channels |-> 32, normalization |-> "LayerNorm",
     num_attention_heads |-> 4, params_dtype |-> "torch.float16",
     sequence_parallel |-> FALSE, tensor_model_parallel_size |-> 1]

Configs == {ConfigA, ConfigB}

(***************************************************************************)
(* Class statements                                                        *)
(***************************************************************************)
AdapterClasses ==
    {"TELayerNorm", "TERMSNorm", "TENorm", "TELinear",
     "TELayerNormColumnParallelLinear", "TEColumnParallelLinear",
     "TERowParallelLinear", "TEDotProductAttention"}

ExternalClasses ==
    {"te.pytorch.LayerNorm", "te.pytorch.RMSNorm", "te.pytorch.Linear",
     "te.pytorch.LayerNormLinear", "te.pytorch.DotProductAttention"}

\* Variant: the fused wrapper derived from the column-parallel wrapper.
BasesOfNested(cls) ==
    CASE cls = "TELayerNorm" -> "te.pytorch.LayerNorm"
      [] cls = "TERMSNorm" -> "te.pytorch.RMSNorm"
      [] cls = "TELinear" -> "te.pytorch.Linear"
      [] cls = "TELayerNormColumnParallelLinear" -> "TEColumnParallelLinear"
      [] cls = "TEColumnParallelLinear" -> "TELinear"
      [] cls = "TERowParallelLinear" -> "TELinear"
      [] cls = "TEDotProductAttention" -> "te.pytorch.DotProductAttention"
      [] OTHER -> "object"

\* The base class each class statement names.
BasesOf(cls) ==
    CASE cls = "TELayerNorm" -> "te.pytorch.LayerNorm"
      [] cls = "TERMSNorm" -> "te.pytorch.RMSNorm"
      [] cls = "TELinear" -> "te.pytorch.Linear"
      [] cls = "TELayerNormColumnParallelLinear" -> "te.pytorch.LayerNormLinear"
      [] cls = "TEColumnParallelLinear" -> "TELinear"
      [] cls = "TERowParallelLinear" -> "TELinear"
      [] cls = "TEDotProductAttention" -> "te.pytorch.DotProductAttention"
      [] OTHER -> "object"

\* The method resolution order of a class, up to the external class.
RECURSIVE Mro(_)
Mro(cls) ==
    IF cls \in AdapterClasses /\ BasesOf(cls) # "object"
    THEN <<cls>> \o Mro(BasesOf(cls))
    ELSE <<cls>>

(***************************************************************************)
(* Normalization wrappers                                                  *)
(***************************************************************************)
\* TELayerNorm.__init__
TELayerNormInit(kw) ==
    IF MissingArgs({"hidden_size"}, kw) # {} THEN Raise("TypeError", <<>>)
    ELSE LET hidden_size == kw["hidden_size"]
             eps == Arg(kw, "eps", "1e-5")
             sequence_parallel == Arg(kw, "sequence_parallel", FALSE)
         IN  Built(<<"TELayerNorm">>, BasesOf("TELayerNorm"),
                   [eps |-> eps, hidden_size |-> hidden_size,
                    sequence_parallel |-> sequence_parallel],
                   EmptyKw)

\* TERMSNorm.__init__
TERMSNormInit(kw) ==
    IF MissingArgs({"hidden_size"}, kw) # {} THEN Raise("TypeError", <<>>)
    ELSE LET hidden_size == kw["hidden_size"]
             eps == Arg(kw, "eps", "1e-5")
             sequence_parallel == Arg(kw, "sequence_parallel", FALSE)
         IN  Built(<<"TERMSNorm">>, BasesOf("TERMSNorm"),
                   [eps |-> eps, hidden_size |-> hidden_size,
                    sequence_parallel |-> sequence_parallel],
                   EmptyKw)

\* Variant: the normalization kind compared without regard to case.
TENormNewAnyCase(kw) ==
    IF MissingArgs({"hidden_size"}, kw) # {} THEN Raise("TypeError", <<>>)
    ELSE LET normalization == Arg(kw, "normalization", "LayerNorm")
             args == [eps |-> Arg(kw, "eps", "1e-5"),
                      hidden_size |-> kw["hidden_size"],
                      sequence_parallel |-> Arg(kw, "sequence_parallel", FALSE)]
         IN  IF normalization \in {"LayerNorm", "layernorm"}
             THEN Built(<<"TENorm">>, "te.pytorch.LayerNorm", args, EmptyKw)
             ELSE IF normalization \in {"RMSNorm", "RMSNORM"}
             THEN Built(<<"TENorm">>, "te.pytorch.RMSNorm", args, EmptyKw)
             ELSE Raise("Exception", <<"TENorm">>)

\* Variant: eps left to the external layer's default instead of forwarded.
TENormNewEpsNotForwarded(kw) ==
    IF MissingArgs({"hidden_size"}, kw) # {} THEN Raise("TypeError", <<>>)
    ELSE LET normalization == Arg(kw, "normalization", "LayerNorm")
             args == [eps |-> "1e-5",
                      hidden_size |-> kw["hidden_size"],
                      sequence_parallel |-> Arg(kw, "sequence_parallel", FALSE)]
         IN  IF normalization = "LayerNorm"
             THEN Built(<<"TENorm">>, "te.pytorch.LayerNorm", args, EmptyKw)
             ELSE IF normalization = "RMSNorm"
             THEN Built(<<"TENorm">>, "te.pytorch.RMSNorm", args, EmptyKw)
             ELSE Raise("Exception", <<"TENorm">>)

\* TENorm.__new__
TENormNew(kw) ==
    IF MissingArgs({"hidden_size"}, kw) # {} THEN Raise("TypeError", <<>>)
    ELSE LET hidden_size == kw["hidden_size"]
             eps == Arg(kw, "eps", "1e-5")
             sequence_parallel == Arg(kw, "sequence_parallel", FALSE)
             normalization == Arg(kw, "normalization", "LayerNorm")
             args == [eps |-> eps, hidden_size |-> hidden_size,
                      sequence_parallel |-> sequence_parallel]
         IN  IF normalization = "LayerNorm"
             THEN Built(<<"TENorm">>, "te.pytorch.LayerNorm", args, EmptyKw)
             ELSE IF normalization = "RMSNorm"
             THEN Built(<<"TENorm">>, "te.pytorch.RMSNorm", args, EmptyKw)
             ELSE Raise("Exception", <<"TENorm">>)

(***************************************************************************)
(* Linear wrappers                                                         *)
(***************************************************************************)
TELinearNamed ==
    {"input_size", "output_size", "config", "parallel_mode", "init_method",
     "bias", "skip_bias_add"}

\* Variant: the external layer asked for its bias whenever skip_bias_add is set.
TELinear_te_return_bias_SkipOnly(skip_bias_add, bias) == skip_bias_add

\* self.te_return_bias of TELinear
TELinear_te_return_bias(skip_bias_add, bias) == skip_bias_add /\ bias

\* Variant: the group read with the initialization check left on.
TELinear_tp_group_Checked(ps) == GetTensorModelParallelGroup(ps, TRUE)

\* The tensor-parallel group TELinear hands to the external layer.
TELinear_tp_group(ps) == GetTensorModelParallelGroup(ps, FALSE)

\* The keyword arguments TELinear.__init__ writes out for te.pytorch.Linear.
TELinearArgs(kw, config, tp_group, te_return_bias) ==
    [bias |-> Arg(kw, "bias", TRUE),
     fuse_wgrad_accumulation |-> config.gradient_accumulation_fusion,
     get_rng_state_tracker |-> "get_cuda_rng_tracker",
     in_features |-> kw["input_size"],
     init_method |-> kw["init_method"],
     out_features |-> kw["output_size"],
     parallel_mode |-> kw["parallel_mode"],
     params_dtype |-> config.params_dtype,
     return_bias |-> te_return_bias,
     sequence_parallel |-> config.sequence_parallel,
     tp_group |-> tp_group,
     tp_size |-> config.tensor_model_parallel_size]

\* TELinear.__init__
TELinearInit(kw, ps) ==
    IF MissingArgs(TELinearNamed \ {"bias", "skip_bias_add"}, kw) # {}
    THEN Raise("TypeError", <<>>)
    ELSE LET config == kw["config"]
             bias == Arg(kw, "bias", TRUE)
             skip_bias_add == Arg(kw, "skip_bias_add", FALSE)
             kwargs == VarKw(TELinearNamed, kw)
             te_return_bias == TELinear_te_return_bias(skip_bias_add, bias)
             tp == TELinear_tp_group(ps)
             explicit == TELinearArgs(kw, config, tp.value, te_return_bias)
         IN  IF tp.raised THEN Raise("AssertionError", <<"TELinear">>)
             ELSE IF DuplicateKw(explicit, kwargs)
             THEN Raise("TypeError", <<"TELinear">>)
             ELSE Built(<<"TELinear">>, BasesOf("TELinear"), Merge(explicit, kwargs),
                        [config |-> config, te_return_bias |-> te_return_bias])

TELayerNormColumnParallelLinearNamed ==
    {"input_size", "output_size", "config", "init_method", "bias",
     "skip_bias_add"}

\* self.te_return_bias of TELayerNormColumnParallelLinear
TELayerNormColumnParallelLinear_te_return_bias(skip_bias_add, bias) ==
    skip_bias_add /\ bias

\* The tensor-parallel group TELayerNormColumnParallelLinear hands over.
TELayerNormColumnParallelLinear_tp_group(ps) ==
    GetTensorModelParallelGroup(ps, FALSE)

\* Variant: the fusion flag taken from the wrong configuration field.
TELayerNormColumnParallelLinearArgsWrongFusion(kw, config, tp_group, te_return_bias) ==
    [bias |-> kw["bias"],
     fuse_wgrad_accumulation |-> config.sequence_parallel,
     get_rng_state_tracker |-> "get_cuda_rng_tracker",
     in_features |-> kw["input_size"],
     init_method |-> kw["init_method"],
     normalization |-> config.normalization,
     out_features |-> kw["output_size"],
     parallel_mode |-> "column",
     params_dtype |-> config.params_dtype,
     return_bias |-> te_return_bias,
     sequence_parallel |-> config.sequence_parallel,
     tp_group |-> tp_group,
     tp_size |-> config.tensor_model_parallel_size]

\* The keyword arguments written out for te.pytorch.LayerNormLinear.
TELayerNormColumnParallelLinearArgs(kw, config, tp_group, te_return_bias) ==
    [bias |-> kw["bias"],
     fuse_wgrad_accumulation |-> config.gradient_accumulation_fusion,
     get_rng_state_tracker |-> "get_cuda_rng_tracker",
     in_features |-> kw["input_size"],
     init_method |-> kw["init_method"],
     normalization |-> config.normalization,
     out_features |-> kw["output_size"],
     parallel_mode |-> "column",
     params_dtype |-> config.params_dtype,
     return_bias |-> te_return_bias,
     sequence_parallel |-> config.sequence_parallel,
     tp_group |-> tp_group,
     tp_size |-> config.tensor_model_parallel_size]

\* TELayerNormColumnParallelLinear.__init__
TELayerNormColumnParallelLinearInit(kw, ps) ==
    IF MissingArgs(TELayerNormColumnParallelLinearNamed, kw) # {}
    THEN Raise("TypeError", <<>>)
    ELSE LET config == kw["config"]
             kwargs == VarKw(TELayerNormColumnParallelLinearNamed, kw)
             te_return_bias ==
                 TELayerNormColumnParallelLinear_te_return_bias(
                     kw["skip_bias_add"], kw["bias"])
             tp == TELayerNormColumnParallelLinear_tp_group(ps)
             explicit ==
                 TELayerNormColumnParallelLinearArgs(
                     kw, config, tp.value, te_return_bias)
             frames == <<"TELayerNormColumnParallelLinear">>
         IN  IF tp.raised THEN Raise("AssertionError", frames)
             ELSE IF DuplicateKw(explicit, kwargs)
             THEN Raise("TypeError", frames)
             ELSE Built(frames, BasesOf("TELayerNormColumnParallelLinear"),
                        Merge(explicit, kwargs),
                        [config |-> config, te_return_bias |-> te_return_bias])

\* A subclass frame around the evaluation of its super().__init__ call.
InFrame(cls, r) == [r EXCEPT !.frames = <<cls>> \o @]

\* Variant: parallel_mode only a default that the caller's kwargs override.
TEColumnParallelLinearInitKwargsFirst(kw, ps) ==
    IF MissingArgs({"input_size", "output_size", "config"}, kw) # {}
    THEN Raise("TypeError", <<>>)
    ELSE LET kwargs == VarKw({"input_size", "output_size", "config"}, kw)
             explicit == [config |-> kw["config"],
                          input_size |-> kw["input_size"],
                          output_size |-> kw["output_size"],
                          parallel_mode |-> "column"]
         IN  InFrame("TEColumnParallelLinear",
                     TELinearInit(Merge(kwargs, explicit), ps))

\* TEColumnParallelLinear.__init__
TEColumnParallelLinearInit(kw, ps) ==
    IF MissingArgs({"input_size", "output_size", "config"}, kw) # {}
    THEN Raise("TypeError", <<>>)
    ELSE LET kwargs == VarKw({"input_size", "output_size", "config"}, kw)
             explicit == [config |-> kw["config"],
                          input_size |-> kw["input_size"],
                          output_size |-> kw["output_size"],
                          parallel_mode |-> "column"]
         IN  IF DuplicateKw(explicit, kwargs)
             THEN Raise("TypeError", <<"TEColumnParallelLinear">>)
             ELSE InFrame("TEColumnParallelLinear",
                          TELinearInit(Merge(explicit, kwargs), ps))

\* TERowParallelLinear.__init__
TERowParallelLinearInit(kw, ps) ==
    IF MissingArgs({"input_size", "output_size", "config"}, kw) # {}
    THEN Raise("TypeError", <<>>)
    ELSE LET kwargs == VarKw({"input_size", "output_size", "config"}, kw)
             explicit == [config |-> kw["config"],
                          input_size |-> kw["input_size"],
                          output_size |-> kw["output_size"],
                          parallel_mode |-> "row"]
         IN  IF DuplicateKw(explicit, kwargs)
             THEN Raise("TypeError", <<"TERowParallelLinear">>)
             ELSE InFrame("TERowParallelLinear",
                          TELinearInit(Merge(explicit, kwargs), ps))

(***************************************************************************)
(* Attention wrapper                                                       *)
(***************************************************************************)
TEDotProductAttentionNamed == {"config", "layer_number", "attn_mask_type"}

\* The tensor-parallel group TEDotProductAttention hands over.
TEDotProductAttention_tp_group(ps) == GetTensorModelParallelGroup(ps, FALSE)

\* TEDotProductAttention.__init__
TEDotProductAttentionInit(kw, ps) ==
    IF MissingArgs({"config"}, kw) # {} THEN Raise("TypeError", <<>>)
    ELSE LET config == kw["config"]
             layer_number == Arg(kw, "layer_number", 1)
             attn_mask_type == Arg(kw, "attn_mask_type", AttnMaskType.padding)
             kwargs == VarKw(TEDotProductAttentionNamed, kw)
             tp == TEDotProductAttention_tp_group(ps)
             explicit ==
                 [attention_dropout |-> config.attention_dropout,
                  attn_mask_type |-> attn_mask_type.name,
                  get_rng_state_tracker |-> "get_cuda_rng_tracker",
                  kv_channels |-> config.kv_channels,
                  layer_number |-> layer_number,
                  num_attention_heads |-> config.num_attention_heads,
                  sequence_parallel |-> config.sequence_parallel,
                  tp_group |-> tp.value,
                  tp_size |-> config.tensor_model_parallel_size]
             frames == <<"TEDotProductAttention">>
         IN  IF tp.raised THEN Raise("AssertionError", frames)
             ELSE IF DuplicateKw(explicit, kwargs)
             THEN Raise("TypeError", frames)
             ELSE Built(frames, BasesOf("TEDotProductAttention"),
                        Merge(explicit, kwargs), [config |-> config])

(***************************************************************************)
(* External layers, as the wrappers' comments document them                *)
(***************************************************************************)
\* forward of te.pytorch.Linear and te.pytorch.LayerNormLinear: a tuple only
\* when return_bias is set, with a zero length bias when the layer has none.
TEForward(te, x) ==
    IF te["return_bias"]
    THEN PyTuple(Tensor("output", x),
                 IF te["bias"] THEN Tensor("bias", "weights")
                 ELSE Tensor("zero_length", "weights"))
    ELSE Tensor("output", x)

\* set_tensor_parallel_group of an external layer built with a tp_group.
TESetTensorParallelGroup(te, group) == [te EXCEPT !["tp_group"] = group]

(***************************************************************************)
(* forward                                                                 *)
(***************************************************************************)
\* Variant: the external layer's return value handed back as it is.
TELinearForwardPassThrough(self, out) == out

\* TELinear.forward, given what super().forward(x) returned
TELinearForward(self, out) ==
    IF self.attrs.te_return_bias THEN out ELSE PyTuple(out, PyNone)

\* TELayerNormColumnParallelLinear.forward, given what super().forward(x) returned
TELayerNormColumnParallelLinearForward(self, out) ==
    IF self.attrs.te_return_bias THEN out ELSE PyTuple(out, PyNone)

(***************************************************************************)
(* The calls a caller makes                                                *)
(***************************************************************************)
Xs == {"x1", "x2"}

NormCalls ==
    {"hidden_size" :> 64,
     Merge("hidden_size" :> 128, "eps" :> "1e-6"),
     Merge("hidden_size" :> 64, "sequence_parallel" :> TRUE),
     Merge(Merge("hidden_size" :> 128, "eps" :> "1e-6"),
           "sequence_parallel" :> TRUE),
     Merge("hidden_size" :> 64, "zero_centered_gamma" :> TRUE),
     EmptyKw}

NormalizationKw ==
    {EmptyKw} \cup
    {"normalization" :> n :
        n \in {"LayerNorm", "RMSNorm", "layernorm", "RMSNORM", "GroupNorm"}}

TENormCalls ==
    {Merge(c, n) :
        c \in {"hidden_size" :> 64,
               Merge(Merge("hidden_size" :> 128, "eps" :> "1e-6"),
                     "sequence_parallel" :> TRUE)},
        n \in NormalizationKw}
    \cup {EmptyKw, "normalization" :> "GroupNorm"}

LinearBase(cfg, b, s) ==
    [bias |-> b, config |-> cfg, init_method |-> "init_method_normal",
     input_size |-> 2, output_size |-> 3, skip_bias_add |-> s]

ExtraKw ==
    {"parallel_mode" :> "row", "parallel_mode" :> "column",
     "return_bias" :> TRUE, "tp_group" :> "tp_group_0", "ub_split_ag" :> TRUE}

LinearCalls ==
    {LinearBase(ConfigA, b, s) : b \in BOOLEAN, s \in BOOLEAN}
    \cup {LinearBase(ConfigB, TRUE, TRUE)}
    \cup {Omit(LinearBase(ConfigA, FALSE, TRUE), K) :
            K \in {{"bias"}, {"skip_bias_add"}, {"bias", "skip_bias_add"},
                   {"init_method"}, {"config"}}}
    \cup {Merge(LinearBase(ConfigB, TRUE, TRUE), e) : e \in ExtraKw}

TELinearCalls ==
    {Merge("parallel_mode" :> "column", c) : c \in LinearCalls}
    \cup {Merge("parallel_mode" :> "row", LinearBase(ConfigA, b, s)) :
            b \in BOOLEAN, s \in BOOLEAN}
    \cup {LinearBase(ConfigA, TRUE, TRUE)}

AttentionCalls ==
    {"config" :> c : c \in Configs}
    \cup {Merge("config" :> ConfigA, e) :
            e \in {"layer_number" :> 2,
                   "attn_mask_type" :> AttnMaskType.causal,
                   "tp_group" :> "tp_group_0", "attention_type" :> "cross"}}
    \cup {EmptyKw}

(***************************************************************************)
(* State machine                                                           *)
(***************************************************************************)
NoCall ==
    [cls |-> "none", frames |-> <<>>, idx |-> 0, kw |-> EmptyKw,
     op |-> "none", outcome |-> "ok", ps |-> "None", ret |-> PyNone,
     teCalls |-> <<>>, teRet |-> PyNone]

Init ==
    /\ parallel_state = "None"
    /\ objs = <<>>
    /\ last = NoCall

\* The instance a successful constructor call leaves the caller with.
\* `made` remembers the call that built it (history only; no code reads it).
NewObject(cls, kw, r, type) ==
    [attrs |-> r.attrs, cls |-> type, made |-> [cls |-> cls, kw |-> kw],
     mro |-> Mro(type), te |-> r.teCalls[1].args]

\* The instances after a caller's cls(**kw) evaluated to r.
ObjsAfter(cls, kw, r, type) ==
    IF r.outcome = "ok" THEN Append(objs, NewObject(cls, kw, r, type))
    ELSE objs

\* The record of a caller's cls(**kw) that evaluated to r.
ConstructorCall(cls, kw, r) ==
    [cls |-> cls, frames |-> r.frames,
     idx |-> IF r.outcome = "ok" THEN Len(objs) + 1 ELSE 0,
     kw |-> kw, op |-> "construct", outcome |-> r.outcome,
     ps |-> parallel_state, ret |-> PyNone, teCalls |-> r.teCalls,
     teRet |-> PyNone]

ConstructTELayerNorm ==
    \E kw \in NormCalls :
        LET r == TELayerNormInit(kw)
        IN  /\ Len(objs) < MaxObjects
            /\ objs' = ObjsAfter("TELayerNorm", kw, r, "TELayerNorm")
            /\ last' = ConstructorCall("TELayerNorm", kw, r)
            /\ UNCHANGED parallel_state

ConstructTERMSNorm ==
    \E kw \in NormCalls :
        LET r == TERMSNormInit(kw)
        IN  /\ Len(objs) < MaxObjects
            /\ objs' = ObjsAfter("TERMSNorm", kw, r, "TERMSNorm")
            /\ last' = ConstructorCall("TERMSNorm", kw, r)
            /\ UNCHANGED parallel_state

\* TENorm(...) hands back the instance __new__ returned, of the external class.
ConstructTENorm ==
    \E kw \in TENormCalls :
        LET r == TENormNew(kw)
            type == IF r.outcome = "ok" THEN r.teCalls[1].ext ELSE "none"
        IN  /\ Len(objs) < MaxObjects
            /\ objs' = ObjsAfter("TENorm", kw, r, type)
            /\ last' = ConstructorCall("TENorm", kw, r)
            /\ UNCHANGED parallel_state

ConstructTELinear ==
    \E kw \in TELinearCalls :
        LET r == TELinearInit(kw, parallel_state)
        IN  /\ Len(objs) < MaxObjects
            /\ objs' = ObjsAfter("TELinear", kw, r, "TELinear")
            /\ last' = ConstructorCall("TELinear", kw, r)
            /\ UNCHANGED parallel_state

ConstructTELayerNormColumnParallelLinear ==
    \E kw \in LinearCalls :
        LET cls == "TELayerNormColumnParallelLinear"
            r == TELayerNormColumnParallelLinearInit(kw, parallel_state)
        IN  /\ Len(objs) < MaxObjects
            /\ objs' = ObjsAfter(cls, kw, r, cls)
            /\ last' = ConstructorCall(cls, kw, r)
            /\ UNCHANGED parallel_state

ConstructTEColumnParallelLinear ==
    \E kw \in LinearCalls :
        LET cls == "TEColumnParallelLinear"
            r == TEColumnParallelLinearInit(kw, parallel_state)
        IN  /\ Len(objs) < MaxObjects
            /\ objs' = ObjsAfter(cls, kw, r, cls)
            /\ last' = ConstructorCall(cls, kw, r)
            /\ UNCHANGED parallel_state

ConstructTERowParallelLinear ==
    \E kw \in LinearCalls :
        LET cls == "TERowParallelLinear"
            r == TERowParallelLinearInit(kw, parallel_state)
        IN  /\ Len(objs) < MaxObjects
            /\ objs' = ObjsAfter(cls, kw, r, cls)
            /\ last' = ConstructorCall(cls, kw, r)
            /\ UNCHANGED parallel_state

ConstructTEDotProductAttention ==
    \E kw \in AttentionCalls :
        LET cls == "TEDotProductAttention"
            r == TEDotProductAttentionInit(kw, parallel_state)
        IN  /\ Len(objs) < MaxObjects
            /\ objs' = ObjsAfter(cls, kw, r, cls)
            /\ last' = ConstructorCall(cls, kw, r)
            /\ UNCHANGED parallel_state

\* The record of a method call on instance i.
MethodCall(op, i, kw, ret, teRet) ==
    [cls |-> objs[i].cls, frames |-> <<>>, idx |-> i, kw |-> kw,
     op |-> op, outcome |-> "ok", ps |-> parallel_state, ret |-> ret,
     teCalls |-> <<>>, teRet |-> teRet]

\* forward(x) on an instance whose class inherits TELinear.forward
ForwardTELinear ==
    \E i \in 1..Len(objs), x \in Xs :
        /\ \E k \in 1..Len(objs[i].mro) : objs[i].mro[k] = "TELinear"
        /\ LET out == TEForward(objs[i].te, x)
           IN  last' = MethodCall("forward", i, "x" :> x,
                                  TELinearForward(objs[i], out), out)
        /\ UNCHANGED <<parallel_state, objs>>

\* forward(x) on a TELayerNormColumnParallelLinear
ForwardTELayerNormColumnParallelLinear ==
    \E i \in 1..Len(objs), x \in Xs :
        /\ objs[i].cls = "TELayerNormColumnParallelLinear"
        /\ LET out == TEForward(objs[i].te, x)
           IN  last' = MethodCall("forward", i, "x" :> x,
                           TELayerNormColumnParallelLinearForward(objs[i], out),
                           out)
        /\ UNCHANGED <<parallel_state, objs>>

\* set_tensor_parallel_group(group) on an instance built with a tp_group
SetTensorParallelGroup ==
    \E i \in 1..Len(objs), g \in Groups :
        /\ "tp_group" \in DOMAIN objs[i].te
        /\ objs' = [objs EXCEPT ![i].te = TESetTensorParallelGroup(@, g)]
        /\ last' = MethodCall("set_tensor_parallel_group", i,
                              "tp_group" :> g, PyNone, PyNone)
        /\ UNCHANGED parallel_state

\* The host framework initializes its parallel state.
InitializeModelParallel ==
    /\ parallel_state = "None"
    /\ \E g \in Groups : parallel_state' = g
    /\ last' = [NoCall EXCEPT !.op = "initialize_model_parallel",
                              !.ps = parallel_state]
    /\ UNCHANGED objs

Next ==
    \/ ConstructTELayerNorm
    \/ ConstructTERMSNorm
    \/ ConstructTENorm
    \/ ConstructTELinear
    \/ ConstructTELayerNormColumnParallelLinear
    \/ ConstructTEColumnParallelLinear
    \/ ConstructTERowParallelLinear
    \/ ConstructTEDotProductAttention
    \/ ForwardTELinear
    \/ ForwardTELayerNormColumnParallelLinear
    \/ SetTensorParallelGroup
    \/ InitializeModelParallel

Spec == Init /\ [][Next]_vars

(***************************************************************************)
(* Properties                                                              *)
(***************************************************************************)
LinearFamily ==
    {"TELinear", "TEColumnParallelLinear", "TERowParallelLinear",
     "TELayerNormColumnParallelLinear"}

Constructed == last.op = "construct" /\ last.outcome = "ok"

\* The keyword arguments the external constructor received in the last call.
LastArgs == last.teCalls[Len(last.teCalls)].args

\* The bias and skip_bias_add an instance was built with.
BiasOf(o) == Arg(o.made.kw, "bias", TRUE)

SkipBiasAddOf(o) == Arg(o.made.kw, "skip_bias_add", FALSE)

\* C1: whatever bias and skip_bias_add an instance of TELinear, of its
\* subclasses or of TELayerNormColumnParallelLinear was built with, every
\* forward(x) returns a pair (output, bias or None): the first value is the
\* output tensor for x and not itself a tuple, whether the external layer
\* returned a tuple or a single tensor.
ForwardReturnsTwoValues ==
    last.op = "forward" =>
        /\ last.ret.py = "tuple"
        /\ Len(last.ret.items) = 2
        /\ last.ret.items[1] = Tensor("output", last.kw["x"])
        /\ last.ret.items[2].py \in {"Tensor", "NoneType"}
        /\ last.teRet.py = "tuple" => last.ret = last.teRet
        /\ last.teRet.py = "Tensor" => last.ret.items[1] = last.teRet

\* The external layer returned a single tensor to a subclass of TELinear and
\* the caller still got a pair.
ForwardPairFromSingleTensor ==
    /\ last.op = "forward"
    /\ last.cls = "TERowParallelLinear"
    /\ last.teRet.py = "Tensor"
    /\ last.ret = PyTuple(last.teRet, PyNone)

\* C2: TENorm called with a normalization that is not exactly "LayerNorm" or
\* "RMSNorm" raises, calls no external constructor and returns no instance.
TENormRejectsOtherKinds ==
    ( /\ last.op = "construct"
      /\ last.cls = "TENorm"
      /\ Arg(last.kw, "normalization", "LayerNorm") \notin {"LayerNorm", "RMSNorm"} )
    => /\ last.outcome # "ok"
       /\ "hidden_size" \in DOMAIN last.kw => last.outcome = "Exception"
       /\ last.teCalls = <<>>
       /\ last.idx = 0
       /\ \A i \in 1..Len(objs) :
              objs[i].made.cls = "TENorm" =>
                  Arg(objs[i].made.kw, "normalization", "LayerNorm")
                      \in {"LayerNorm", "RMSNorm"}

\* TENorm was called with a differently-cased spelling and raised.
TENormRejectedLowerCase ==
    /\ last.op = "construct"
    /\ last.cls = "TENorm"
    /\ "normalization" \in DOMAIN last.kw
    /\ last.kw["normalization"] = "layernorm"
    /\ last.outcome = "Exception"

\* C3: TENorm with normalization "LayerNorm" (or omitted) returns an instance
\* of the external LayerNorm, with "RMSNorm" an instance of the external
\* RMSNorm; exactly one external layer is constructed, with the caller's
\* hidden_size, eps (default 1e-5) and sequence_parallel (default False).
TENormBuildsRequestedLayer ==
    ( /\ last.op = "construct"
      /\ last.cls = "TENorm"
      /\ "hidden_size" \in DOMAIN last.kw
      /\ Arg(last.kw, "normalization", "LayerNorm") \in {"LayerNorm", "RMSNorm"} )
    => /\ last.outcome = "ok"
       /\ Len(last.teCalls) = 1
       /\ last.teCalls[1].ext =
              IF Arg(last.kw, "normalization", "LayerNorm") = "LayerNorm"
              THEN "te.pytorch.LayerNorm" ELSE "te.pytorch.RMSNorm"
       /\ last.teCalls[1].args =
              [eps |-> IF "eps" \in DOMAIN last.kw THEN last.kw["eps"]
                       ELSE "1e-5",
               hidden_size |-> last.kw["hidden_size"],
               sequence_parallel |->
                   IF "sequence_parallel" \in DOMAIN last.kw
                   THEN last.kw["sequence_parallel"] ELSE FALSE]
       /\ objs[last.idx].cls = last.teCalls[1].ext
       /\ objs[last.idx].te = last.teCalls[1].args

\* TENorm built an RMSNorm with a caller-chosen eps.
TENormBuiltRMSNorm ==
    /\ Constructed
    /\ last.cls = "TENorm"
    /\ objs[last.idx].cls = "te.pytorch.RMSNorm"
    /\ "eps" \in DOMAIN last.kw
    /\ LastArgs["eps"] = "1e-6"

\* The adapter classes found in a method resolution order.
AdaptersIn(mro) == {mro[k] : k \in 1..Len(mro)} \cap AdapterClasses

ExternalsIn(mro) == {mro[k] : k \in 1..Len(mro)} \cap ExternalClasses

\* C4 as stated: every adapter wraps exactly one external class, and no
\* adapter inherits from or delegates to another adapter: an instance's
\* class chain holds no adapter but its own class, and a constructor call
\* enters no adapter frame but its own.
AdaptersAreFlat ==
    /\ \A i \in 1..Len(objs) :
          /\ AdaptersIn(objs[i].mro) \subseteq {objs[i].cls}
          /\ Cardinality(ExternalsIn(objs[i].mro)) = 1
    /\ last.op = "construct" => Len(last.frames) <= 1

\* C4 amended: TEColumnParallelLinear and TERowParallelLinear inherit from
\* the adapter TELinear and delegate their construction to it; no other
\* adapter depends on an adapter. Every instance derives from exactly one
\* external class and every successful construction calls exactly one
\* external constructor: the class's own external base, or for TENorm the
\* LayerNorm or RMSNorm that its normalization argument selects.
AdaptersFlatButLinearSubclasses ==
    /\ \A i \in 1..Len(objs) :
          /\ AdaptersIn(objs[i].mro) \ {objs[i].cls} \subseteq
                 IF objs[i].cls \in {"TEColumnParallelLinear",
                                     "TERowParallelLinear"}
                 THEN {"TELinear"} ELSE {}
          /\ Cardinality(ExternalsIn(objs[i].mro)) = 1
    /\ Constructed =>
          /\ last.frames =
                 IF last.cls \in {"TEColumnParallelLinear",
                                  "TERowParallelLinear"}
                 THEN <<last.cls, "TELinear">> ELSE <<last.cls>>
          /\ Len(last.teCalls) = 1
          /\ IF last.cls = "TENorm"
             THEN last.teCalls[1].ext \in
                      {"te.pytorch.LayerNorm", "te.pytorch.RMSNorm"}
             ELSE ExternalsIn(objs[last.idx].mro) = {last.teCalls[1].ext}

\* A TERowParallelLinear was built through TELinear.__init__.
RowBuiltThroughTELinear ==
    /\ Constructed
    /\ last.cls = "TERowParallelLinear"
    /\ last.frames = <<"TERowParallelLinear", "TELinear">>
    /\ objs[last.idx].mro =
           <<"TERowParallelLinear", "TELinear", "te.pytorch.Linear">>

TensorParallelFamily == LinearFamily \cup {"TEDotProductAttention"}

\* C5, at construction: building TELinear (or a subclass),
\* TELayerNormColumnParallelLinear or TEDotProductAttention never fails for
\* want of an initialized parallel state, and the external layer receives the
\* group that parallel state holds at that moment: None before initialization.
TpGroupReadAtConstruction ==
    (last.op = "construct" /\ last.cls \in TensorParallelFamily) =>
        /\ last.outcome # "AssertionError"
        /\ last.outcome = "ok" =>
              /\ LastArgs["tp_group"] = last.ps
              /\ objs[last.idx].te["tp_group"] = last.ps

\* C5, afterwards: an instance's group changes only by a call of
\* set_tensor_parallel_group() on that instance.
TpGroupKeptUntilSet ==
    \A i \in 1..Len(objs) :
        ("tp_group" \in DOMAIN objs[i].te
            /\ objs'[i].te["tp_group"] # objs[i].te["tp_group"])
        => (last'.op = "set_tensor_parallel_group" /\ last'.idx = i)

\* C5: a wrapper built before the parallel state is initialized is built with
\* a tensor-parallel group of None, the group being read at construction; it
\* keeps that group when the parallel state is initialized later, until
\* set_tensor_parallel_group() is called on it.
TpGroupNoneUntilSet ==
    [](TpGroupReadAtConstruction) /\ [][TpGroupKeptUntilSet]_vars

\* The parallel state was initialized after a wrapper was built, and the
\* wrapper still holds None.
BuiltBeforeInitStillNone ==
    /\ last.op = "initialize_model_parallel"
    /\ parallel_state # "None"
    /\ \E i \in 1..Len(objs) :
          /\ objs[i].made.cls \in TensorParallelFamily
          /\ objs[i].te["tp_group"] = "None"

\* C6: the external layer is asked to return its bias exactly when both
\* skip_bias_add and bias are set, so never when it has no bias; and the
\* second value of forward is None whenever bias or skip_bias_add is unset,
\* never a zero length tensor.
ReturnBiasOnlyWithBias ==
    /\ (Constructed /\ last.cls \in LinearFamily) =>
          /\ LastArgs["return_bias"] =
                 (SkipBiasAddOf(objs[last.idx]) /\ BiasOf(objs[last.idx]))
          /\ LastArgs["bias"] = BiasOf(objs[last.idx])
          /\ LastArgs["return_bias"] => LastArgs["bias"]
          /\ objs[last.idx].attrs.te_return_bias = LastArgs["return_bias"]
    /\ last.op = "forward" =>
          /\ (~BiasOf(objs[last.idx]) \/ ~SkipBiasAddOf(objs[last.idx]))
                 => last.ret.items[2] = PyNone
          /\ last.ret.items[2] # Tensor("zero_length", "weights")
          /\ last.teRet.py = "tuple" =>
                 last.teRet.items[2] # Tensor("zero_length", "weights")

\* forward on a layer built with skip_bias_add set and bias unset returned
\* None as its second value.
ForwardNoneWithoutBias ==
    /\ last.op = "forward"
    /\ SkipBiasAddOf(objs[last.idx])
    /\ ~BiasOf(objs[last.idx])
    /\ last.ret.items[2] = PyNone

\* C7: the parallel_mode the external constructor receives is "column" for
\* TEColumnParallelLinear and TELayerNormColumnParallelLinear and "row" for
\* TERowParallelLinear, whatever keyword arguments the caller supplies; a
\* call that supplies parallel_mode itself builds nothing.
ParallelModeFixed ==
    (last.op = "construct"
        /\ last.cls \in {"TEColumnParallelLinear", "TERowParallelLinear",
                         "TELayerNormColumnParallelLinear"}) =>
        /\ last.outcome = "ok" =>
              LastArgs["parallel_mode"] =
                  IF last.cls = "TERowParallelLinear" THEN "row" ELSE "column"
        /\ "parallel_mode" \in DOMAIN last.kw =>
              (last.outcome = "TypeError" /\ last.teCalls = <<>>)

\* A TEColumnParallelLinear was built by a call that passed extra keyword
\* arguments through to the external layer.
ColumnBuiltWithExtraKwargs ==
    /\ Constructed
    /\ last.cls = "TEColumnParallelLinear"
    /\ "ub_split_ag" \in DOMAIN last.kw
    /\ "ub_split_ag" \in DOMAIN LastArgs
    /\ LastArgs["parallel_mode"] = "column"

\* The external constructor keywords both linear wrappers write out.
CommonLinearKeys ==
    {"in_features", "out_features", "sequence_parallel",
     "fuse_wgrad_accumulation", "tp_group", "tp_size",
     "get_rng_state_tracker", "init_method", "params_dtype", "parallel_mode",
     "bias", "return_bias"}

\* C8: TELinear and TELayerNormColumnParallelLinear translate a configuration
\* into the same external constructor arguments, field by field; the fused
\* wrapper differs only in fixing parallel_mode to "column" and in adding
\* normalization = config.normalization.
SameTranslation ==
    /\ (Constructed
            /\ last.cls \in {"TELinear", "TELayerNormColumnParallelLinear"}) =>
          LET a == LastArgs
              config == last.kw["config"]
              fused == last.cls = "TELayerNormColumnParallelLinear"
              passed == DOMAIN last.kw \
                            (TELinearNamed \cup
                             TELayerNormColumnParallelLinearNamed)
          IN  /\ a["sequence_parallel"] = config.sequence_parallel
              /\ a["fuse_wgrad_accumulation"] =
                     config.gradient_accumulation_fusion
              /\ a["tp_size"] = config.tensor_model_parallel_size
              /\ a["params_dtype"] = config.params_dtype
              /\ a["in_features"] = last.kw["input_size"]
              /\ a["out_features"] = last.kw["output_size"]
              /\ a["bias"] = BiasOf(objs[last.idx])
              /\ a["get_rng_state_tracker"] = "get_cuda_rng_tracker"
              /\ a["init_method"] = last.kw["init_method"]
              /\ a["parallel_mode"] =
                     IF fused THEN "column" ELSE last.kw["parallel_mode"]
              /\ fused => a["normalization"] = config.normalization
              /\ DOMAIN a =
                     CommonLinearKeys \cup passed \cup
                     (IF fused THEN {"normalization"} ELSE {})
    /\ \A i, j \in 1..Len(objs) :
          ( /\ objs[i].cls = "TELinear"
            /\ objs[j].cls = "TELayerNormColumnParallelLinear"
            /\ objs[i].attrs.config = objs[j].attrs.config )
          => \A k \in {"sequence_parallel", "fuse_wgrad_accumulation",
                       "tp_size", "params_dtype", "get_rng_state_tracker"} :
                 objs[i].te[k] = objs[j].te[k]

\* A fused layer was built from a configuration whose fusion and
\* sequence-parallel flags differ.
FusedBuiltFromConfig ==
    /\ Constructed
    /\ last.cls = "TELayerNormColumnParallelLinear"
    /\ last.kw["config"].gradient_accumulation_fusion
    /\ ~last.kw["config"].sequence_parallel
    /\ LastArgs["fuse_wgrad_accumulation"]
    /\ LastArgs["normalization"] = "LayerNorm"

====
